---------------------------- MODULE Spec2Model ----------------------------
(***************************************************************************)
(* Model of the YoutubeDownloader orchestration pipeline.                  *)
(*                                                                         *)
(*   src/youtube_downloader_ytdlp.py      command-line front-end           *)
(*                                        (download_video)                 *)
(*   src/youtube_downloader_ytdlp_gui.py  interactive front-end            *)
(*                                        (DownloadWorker.run)             *)
(*                                                                         *)
(* Text is modelled as a sequence of one-character strings, so that        *)
(* sanitize_filename and the progress-line parser are computed character   *)
(* by character as the code computes them.                                 *)
(***************************************************************************)
EXTENDS Integers, Sequences, FiniteSets, TLC

VARIABLES
    frontend,         \* "cli" (download_video) or "gui" (DownloadWorker.run)
    output_path,      \* the request's output directory
    download_video,   \* DownloadWorker.download_video (always TRUE in the CLI)
    download_audio,   \* DownloadWorker.download_audio (always TRUE in the CLI)
    have_ytdlp,       \* shutil.which('yt-dlp') resolves
    have_ffmpeg,      \* shutil.which('ffmpeg') resolves
    dir_exists,       \* os.path.exists(output_path)
    pc,               \* position of the run in its code
    child,            \* the live child process of the run, or "none"
    invoked,          \* history: engine invocations, each with its exit code
    events,           \* history: signals emitted (gui) / lines printed (cli)
    video_info,       \* value returned by get_video_info
    video_title,      \* video_info.get('title', 'video')
    sanitized_title,  \* sanitize_filename(video_title)
    video_file,       \* os.path.join(output_path, sanitized_title + ".mp4")
    audio_file,       \* os.path.join(output_path, sanitized_title + ".mp3")
    nlines,           \* lines read so far by the primary video fetch loop
    result,           \* return value of download_video ("none" while running)
    makedirs,         \* history: os.makedirs of this run ("no", "ok", "failed")
    argv,             \* sys.argv of the command line
    exit_code,        \* exit code of the command line (<<>> while running)
    download_btn,     \* download_btn.isEnabled()
    message_box,      \* the last modal QMessageBox shown ("none" before any)
    progress_bar,     \* progress_bar.value()
    status_label,     \* status_label.text()
    log_label,        \* log_label.text(), as the list of appended texts
    delivered,        \* signals of self.worker the main thread has handled
    started,          \* workers started so far
    previous          \* the earlier workers, each as what is left of its run

vars == <<frontend, output_path, download_video, download_audio, have_ytdlp,
          have_ffmpeg, dir_exists, pc, child, invoked, events, video_info,
          video_title, sanitized_title, video_file, audio_file, nlines, result,
          makedirs, argv, exit_code, download_btn, message_box, progress_bar,
          status_label, log_label, delivered, started, previous>>

shell == <<argv, exit_code>>
app == <<download_btn, message_box, progress_bar, status_label, log_label,
         delivered, started, previous>>

request == <<frontend, output_path, download_video, download_audio>>
environment == <<have_ytdlp, have_ffmpeg>>
names == <<video_title, sanitized_title, video_file, audio_file>>

-----------------------------------------------------------------------------
(* Bounds of the model.                                                    *)

\* longest title enumerated for sanitize_filename
MaxTitleLen == 3
\* most output lines the primary video fetch prints in one run
MaxLines == 2
\* the same, for a worker started from the form
MaxFormLines == 1
\* most workers started from the form
MaxDownloads == 2

-----------------------------------------------------------------------------
(* Text helpers.                                                           *)

RECURSIVE SeqsUpTo(_, _)
SeqsUpTo(S, n) ==
    IF n = 0 THEN {<<>>}
    ELSE LET shorter == SeqsUpTo(S, n - 1)
         IN  shorter \cup {Append(s, c) : s \in {t \in shorter : Len(t) = n - 1}, c \in S}

Whitespace == {" ", "\n"}
Digits == {"0", "1", "2", "3", "4", "5", "6", "7", "8", "9"}

DigitValue(c) ==
    CASE c = "0" -> 0 [] c = "1" -> 1 [] c = "2" -> 2 [] c = "3" -> 3
      [] c = "4" -> 4 [] c = "5" -> 5 [] c = "6" -> 6 [] c = "7" -> 7
      [] c = "8" -> 8 [] c = "9" -> 9

\* c in s
Contains(s, c) == \E i \in 1..Len(s) : s[i] = c

\* s.split(c)[0]: the text before the first occurrence of c (all of s if none)
RECURSIVE SplitFirst(_, _)
SplitFirst(s, c) ==
    IF s = <<>> \/ Head(s) = c THEN <<>>
    ELSE <<Head(s)>> \o SplitFirst(Tail(s), c)

\* s.split(c)[-1]: the text after the last occurrence of c (all of s if none)
RECURSIVE SplitLast(_, _)
SplitLast(s, c) ==
    IF s = <<>> THEN <<>>
    ELSE IF s[Len(s)] = c THEN <<>>
    ELSE Append(SplitLast(SubSeq(s, 1, Len(s) - 1), c), s[Len(s)])

RECURSIVE LStrip(_)
LStrip(s) ==
    IF s # <<>> /\ Head(s) \in Whitespace THEN LStrip(Tail(s)) ELSE s

RECURSIVE RStrip(_)
RStrip(s) ==
    IF s # <<>> /\ s[Len(s)] \in Whitespace
    THEN RStrip(SubSeq(s, 1, Len(s) - 1)) ELSE s

\* s.strip()
Strip(s) == RStrip(LStrip(s))

-----------------------------------------------------------------------------
(* sanitize_filename: re.sub(r'[\\/*?:"<>|]', "", title).                  *)

InvalidChars == {"\\", "/", "*", "?", ":", "\"", "<", ">", "|"}

\* a sanitizer that forgets the last character of the class
RECURSIVE sanitize_filename_misses_bar(_)
sanitize_filename_misses_bar(title) ==
    IF title = <<>> THEN <<>>
    ELSE IF Head(title) \in (InvalidChars \ {"|"})
         THEN sanitize_filename_misses_bar(Tail(title))
         ELSE <<Head(title)>> \o sanitize_filename_misses_bar(Tail(title))

\* re.sub scans the title left to right and replaces every character of the
\* class by the empty string
RECURSIVE sanitize_filename(_)
sanitize_filename(title) ==
    IF title = <<>> THEN <<>>
    ELSE IF Head(title) \in InvalidChars
         THEN sanitize_filename(Tail(title))
         ELSE <<Head(title)>> \o sanitize_filename(Tail(title))

-----------------------------------------------------------------------------
(* Progress parsing of one output line of the primary video fetch          *)
(* (DownloadWorker.run, the body of the try at lines 139-146).             *)

RECURSIVE DigitsValue(_)
DigitsValue(ds) ==
    IF ds = <<>> THEN 0
    ELSE DigitsValue(SubSeq(ds, 1, Len(ds) - 1)) * 10 + DigitValue(ds[Len(ds)])

RECURSIVE Pow10(_)
Pow10(n) == IF n = 0 THEN 1 ELSE 10 * Pow10(n - 1)

\* int(x) of Python for x = n/d, d > 0: truncation toward zero
Trunc(n, d) == IF n >= 0 THEN n \div d ELSE -((-n) \div d)

Unsigned(tok) ==
    IF tok # <<>> /\ Head(tok) \in {"+", "-"} THEN Tail(tok) ELSE tok

IsDecimal(b) ==
    /\ \A i \in 1..Len(b) : b[i] \in Digits \cup {"."}
    /\ Cardinality({i \in 1..Len(b) : b[i] = "."}) <= 1
    /\ \E i \in 1..Len(b) : b[i] \in Digits

\* float(tok).  The result is [ok, finite, mant, scale]: the number mant/scale
\* when finite, nan or an infinity otherwise; ok = FALSE is ValueError.
\* Tokens are over the alphabet of Lines: decimal notation, "nan" and "inf"
\* (exponents and digit-group underscores do not occur in it).
ParseFloat(tok) ==
    LET b    == Unsigned(tok)
        ip   == SplitFirst(b, ".")
        fp   == IF Contains(b, ".") THEN SubSeq(b, Len(ip) + 2, Len(b)) ELSE <<>>
        sign == IF tok # <<>> /\ Head(tok) = "-" THEN -1 ELSE 1
    IN  IF b \in {<<"n", "a", "n">>, <<"i", "n", "f">>}
        THEN [ok |-> TRUE, finite |-> FALSE, mant |-> 0, scale |-> 1]
        ELSE IF IsDecimal(b)
        THEN [ok |-> TRUE, finite |-> TRUE,
              mant |-> sign * DigitsValue(ip \o fp), scale |-> Pow10(Len(fp))]
        ELSE [ok |-> FALSE, finite |-> FALSE, mant |-> 0, scale |-> 1]

\* line.split('%')[0].strip().split(' ')[-1]
progress_str(line) == SplitLast(Strip(SplitFirst(line, "%")), " ")

\* int(30 + (progress * 0.4)), computed exactly: 30 + 4 * mant / (10 * scale)
scaled_progress(p) == Trunc(30 * 10 * p.scale + 4 * p.mant, 10 * p.scale)

\* The progress values one line makes the loop emit: none when the line has no
\* '%', when float() raises, or when int() raises on nan / infinity (the bare
\* except swallows all three).
LineProgress(line) ==
    IF ~Contains(line, "%") THEN <<>>
    ELSE LET p == ParseFloat(progress_str(line))
         IN  IF p.ok /\ p.finite THEN <<scaled_progress(p)>> ELSE <<>>

-----------------------------------------------------------------------------
(* What the external engines can do.  An invocation that was started runs  *)
(* to an exit code; the metadata output is either text json.loads rejects  *)
(* or the JSON object it encodes.                                          *)

\* exit codes of an engine invocation
ExitCodes == {0, 1}

\* standard-error text of a failed invocation (it may be empty)
Diags == {<<>>, <<"E">>}

\* titles the metadata can carry
Titles == { <<"a">>, <<"a", ":", "b", "?">> }

\* A JSON object is the set of its <<key, value>> members.  The metadata
\* output either does not parse (json.loads raises) or encodes one of these.
MetaObjects ==
    { {}, {<<"id", <<"x">>>>} }
      \cup { {<<"id", <<"x">>>>, <<"title", t>>} : t \in Titles }

NoOutput == [parses |-> FALSE, obj |-> {}]

MetaOutputs ==
    { NoOutput } \cup { [parses |-> TRUE, obj |-> o] : o \in MetaObjects }

\* dict.get(key, default)
Get(obj, key, default) ==
    IF \E m \in obj : m[1] = key
    THEN (CHOOSE m \in obj : m[1] = key)[2]
    ELSE default

None == [is_none |-> TRUE, obj |-> {}]
Some(o) == [is_none |-> FALSE, obj |-> o]

\* Python truthiness of the value get_video_info returned: None and the empty
\* dict are both falsy
Truthy(v) == ~v.is_none /\ v.obj # {}

\* output lines of the primary video fetch, as readline() returns them
Lines ==
    { <<"d", " ", "5", "0", ".", "0", "%", " ", "o", "f", "\n">>,
      <<"1", "0", "%", "\n">>,
      <<" ", "1", "0", "0", "%", " ", "9", "%", "\n">>,
      <<"1", "7", "5", "%", "\n">>,
      <<"-", "5", "%", "\n">>,
      <<"n", "a", "n", "%", "\n">>,
      <<"n", "/", "a", "%", "\n">>,
      <<"o", "k", "\n">>,
      <<"\n">> }

OutDirs == {"downloads", "my_downloads"}

-----------------------------------------------------------------------------
(* Histories.                                                              *)

Emit(sig, val) == [sig |-> sig, val |-> val]

\* a subprocess is started: subprocess.run / subprocess.Popen
Invocation(cmd) ==
    [cmd |-> cmd, exited |-> FALSE, rc |-> 0, err |-> <<>>, out |-> NoOutput]

Spawned(cmd) == Append(invoked, Invocation(cmd))

\* the live subprocess exits with code rc, having written err to its standard
\* error and out to its standard output
Exited(rc, err, out) ==
    [invoked EXCEPT ![Len(invoked)] =
        [@ EXCEPT !.exited = TRUE, !.rc = rc, !.err = err, !.out = out]]

\* os.path.join(output_path, f"{sanitized_title}{ext}")
PathJoin(dir, name, ext) == <<dir, "/">> \o name \o <<ext>>

DefaultTitle == <<"v", "i", "d", "e", "o">>

-----------------------------------------------------------------------------
(* Initial states: a request has been accepted and the run is about to     *)
(* start.  DownloadWorker takes the two flags as constructor arguments;    *)
(* download_video of the command line has none and does both legs.         *)

Idle ==
    /\ child = "none"
    /\ invoked = <<>>
    /\ events = <<>>
    /\ video_info = None
    /\ video_title = <<>>
    /\ sanitized_title = <<>>
    /\ video_file = <<>>
    /\ audio_file = <<>>
    /\ nlines = 0
    /\ result = "none"
    /\ makedirs = "no"

\* the form as init_ui leaves it (lines 270-309)
FreshForm ==
    /\ download_btn = TRUE
    /\ message_box = "none"
    /\ progress_bar = 0
    /\ status_label = <<"Ready to download">>
    /\ log_label = <<"Waiting for download to start...">>
    /\ delivered = 0
    /\ started = 0
    /\ previous = <<>>

\* no command line and the form untouched
Detached ==
    /\ argv = <<>>
    /\ exit_code = <<>>
    /\ FreshForm

Init ==
    /\ frontend \in {"cli", "gui"}
    /\ output_path \in OutDirs
    /\ download_video \in BOOLEAN
    /\ download_audio \in BOOLEAN
    /\ frontend = "cli" => download_video /\ download_audio
    /\ have_ytdlp \in BOOLEAN
    /\ have_ffmpeg \in BOOLEAN
    /\ dir_exists \in BOOLEAN
    /\ pc = "check_deps"
    /\ Idle
    /\ Detached

-----------------------------------------------------------------------------
(* Dependency Prober: check_dependencies of both files.                    *)

\* a prober that forgets to look for ffmpeg
missing_deps_forgets_ffmpeg ==
    IF have_ytdlp THEN <<>> ELSE <<"yt-dlp">>

\* a prober that stops at the first tool it misses
missing_deps_stops_at_first ==
    IF ~have_ytdlp THEN <<"yt-dlp">>
    ELSE IF ~have_ffmpeg THEN <<"ffmpeg">> ELSE <<>>

\* the list check_dependencies builds
missing_deps ==
    (IF have_ytdlp THEN <<>> ELSE <<"yt-dlp">>)
      \o (IF have_ffmpeg THEN <<>> ELSE <<"ffmpeg">>)

-----------------------------------------------------------------------------
(* DownloadWorker.run (interactive front-end).                             *)

Gui(at) == frontend = "gui" /\ pc = at

\* lines 80-88
RunCheckDeps ==
    /\ Gui("check_deps")
    /\ IF missing_deps # <<>>
       THEN /\ events' = Append(events,
                   Emit("error", <<"Missing required dependencies: ">> \o missing_deps))
            /\ pc' = "returned"
       ELSE /\ pc' = "makedirs"
            /\ UNCHANGED events
    /\ UNCHANGED <<shell, app, makedirs, request, environment, dir_exists, child, invoked, video_info,
                   names, nlines, result>>

\* a run that goes on to the metadata without creating the directory
RunMakeDirsSkipped ==
    /\ Gui("makedirs")
    /\ pc' = "get_video_info"
    /\ UNCHANGED <<shell, app, request, environment, dir_exists, makedirs, events,
                   child, invoked, video_info, names, nlines, result>>

\* lines 91-92, and the handler of lines 206-207 when os.makedirs raises
RunMakeDirs ==
    /\ Gui("makedirs")
    /\ \/ /\ dir_exists
          /\ pc' = "get_video_info"
          /\ UNCHANGED <<dir_exists, events, makedirs>>
       \/ /\ ~dir_exists
          /\ dir_exists' = TRUE
          /\ makedirs' = "ok"
          /\ pc' = "get_video_info"
          /\ UNCHANGED events
       \/ /\ ~dir_exists
          /\ events' = Append(events, Emit("error", <<"Error: ", "OSError">>))
          /\ makedirs' = "failed"
          /\ pc' = "returned"
          /\ UNCHANGED dir_exists
    /\ UNCHANGED <<shell, app, request, environment, child, invoked, video_info, names,
                   nlines, result>>

\* get_video_info, lines 58-63: the metadata invocation starts
GetVideoInfoSpawn ==
    /\ Gui("get_video_info")
    /\ events' = events \o << Emit("status", <<"Getting video information...">>),
                              Emit("progress", 10) >>
    /\ child' = "metadata"
    /\ invoked' = Spawned("metadata")
    /\ pc' = "get_video_info_wait"
    /\ UNCHANGED <<shell, app, makedirs, request, environment, dir_exists, video_info, names, nlines, result>>

\* a get_video_info that answers a failure with a stand-in record
InfoValueDefaultsOnFailure(rc, out) ==
    IF rc # 0 \/ ~out.parses THEN Some({<<"title", DefaultTitle>>}) ELSE Some(out.obj)

\* the value get_video_info returns for exit code rc and output out
\* (lines 65-75): None on a non-zero exit and when json.loads raises
InfoValue(rc, out) ==
    IF rc # 0 \/ ~out.parses THEN None ELSE Some(out.obj)

\* get_video_info, lines 63-75: the metadata invocation has exited
GetVideoInfoReturn ==
    /\ Gui("get_video_info_wait")
    /\ \E rc \in ExitCodes, err \in Diags, out \in MetaOutputs :
          /\ rc = 0 => err = <<>>
          /\ rc # 0 => out = NoOutput
          /\ invoked' = Exited(rc, err, out)
          /\ video_info' = InfoValue(rc, out)
          /\ events' = Append(events,
                IF rc # 0
                THEN Emit("error", <<"Error getting video info: ">>
                          \o (IF err # <<>> THEN err ELSE <<"Failed to get video information">>))
                ELSE IF ~out.parses
                THEN Emit("error", <<"Error while getting video info: ", "JSONDecodeError">>)
                ELSE Emit("progress", 20))
    /\ child' = "none"
    /\ pc' = "have_video_info"
    /\ UNCHANGED <<shell, app, makedirs, request, environment, dir_exists, names, nlines, result>>

\* lines 96-107: the check of the returned value, and the derived names
RunDeriveNames ==
    /\ Gui("have_video_info")
    /\ IF ~Truthy(video_info)
       THEN /\ pc' = "returned"
            /\ UNCHANGED <<events, names>>
       ELSE LET title == Get(video_info.obj, "title", DefaultTitle)
                sane  == sanitize_filename(title)
            IN  /\ video_title' = title
                /\ sanitized_title' = sane
                /\ events' = Append(events, Emit("status", <<"Downloading: ">> \o title))
                /\ video_file' = PathJoin(output_path, sane, ".mp4")
                /\ audio_file' = PathJoin(output_path, sane, ".mp3")
                /\ pc' = "video"
    /\ UNCHANGED <<shell, app, makedirs, request, environment, dir_exists, child, invoked, video_info,
                   nlines, result>>

\* lines 110-128: the primary video fetch is started (or the leg is skipped)
RunVideoSpawn ==
    /\ Gui("video")
    /\ IF download_video
       THEN /\ events' = events \o << Emit("status", <<"Downloading MP4 (video)...">>),
                                      Emit("log", <<"\nDownloading video...">>),
                                      Emit("progress", 30) >>
            /\ child' = "video_primary"
            /\ invoked' = Spawned("video_primary")
            /\ pc' = "video_loop"
       ELSE /\ pc' = "audio"
            /\ UNCHANGED <<events, child, invoked>>
    /\ UNCHANGED <<shell, app, makedirs, request, environment, dir_exists, video_info, names, nlines, result>>

\* lines 132-146: readline() returns a line; it is logged and, if it carries a
\* percentage that parses, the rescaled value is emitted
RunVideoReadLine ==
    /\ Gui("video_loop")
    /\ nlines < (IF started > 0 THEN MaxFormLines ELSE MaxLines)
    /\ \E line \in Lines :
          events' = events \o <<Emit("log", Strip(line))>>
                      \o [i \in 1..Len(LineProgress(line)) |->
                            Emit("progress", LineProgress(line)[i])]
    /\ nlines' = nlines + 1
    /\ UNCHANGED <<shell, app, makedirs, request, environment, dir_exists, pc, child, invoked, video_info,
                   names, result>>

\* the primary video fetch process exits (what it has printed stays readable)
VideoProcessExit ==
    /\ Gui("video_loop")
    /\ child = "video_primary"
    /\ \E rc \in ExitCodes : invoked' = Exited(rc, <<>>, NoOutput)
    /\ child' = "none"
    /\ UNCHANGED <<shell, app, makedirs, request, environment, dir_exists, pc, events, video_info, names,
                   nlines, result>>

\* a loop that ends on the first empty read, whether the process lives or not
LoopEndsOnEmptyRead == TRUE

\* the poll test inverted: the loop ends only while the process is alive
LoopEndsWhileAlive == child # "none"

\* line 133: process.poll() is not None, the process has exited
LoopEnds == child = "none"

\* lines 132-134: readline() returns '' and poll() is not None
RunVideoLoopBreak ==
    /\ Gui("video_loop")
    /\ LoopEnds
    /\ pc' = "video_returncode"
    /\ UNCHANGED <<shell, app, makedirs, request, environment, dir_exists, child, invoked, events,
                   video_info, names, nlines, result>>

\* a test that retries whatever the exit code was
NeedsFallbackAlways(rc) == TRUE

\* the test of lines 148 (gui) and 92 (cli): a fallback is tried after exit code rc
NeedsFallback(rc) == rc # 0

LastExit == invoked[Len(invoked)].rc

\* lines 148-154 and 160: the fallback is started after a failed primary
RunVideoFallbackSpawn ==
    /\ Gui("video_returncode")
    /\ IF NeedsFallback(LastExit)
       THEN /\ events' = events \o << Emit("status", <<"Trying alternative video format...">>),
                                      Emit("log", <<"\nTrying alternative video format...">>) >>
            /\ child' = "video_fallback"
            /\ invoked' = Spawned("video_fallback")
            /\ pc' = "video_fallback_wait"
       ELSE /\ events' = Append(events, Emit("log", <<"MP4 download complete!">>))
            /\ pc' = "audio"
            /\ UNCHANGED <<child, invoked>>
    /\ UNCHANGED <<shell, app, makedirs, request, environment, dir_exists, video_info, names, nlines, result>>

\* a run that forgets the return of line 158
AfterFallbackNoReturn(rc) == "audio"

\* lines 156-160: where the run goes after the fallback exited with rc
AfterFallback(rc) == IF rc # 0 THEN "returned" ELSE "audio"

\* lines 154-160: the fallback has exited
RunVideoFallbackReturn ==
    /\ Gui("video_fallback_wait")
    /\ \E rc \in ExitCodes, err \in Diags :
          /\ rc = 0 => err = <<>>
          /\ invoked' = Exited(rc, err, NoOutput)
          /\ events' = Append(events,
                IF rc # 0
                THEN Emit("error", <<"Error downloading video: ">> \o err)
                ELSE Emit("log", <<"MP4 download complete!">>))
          /\ pc' = AfterFallback(rc)
    /\ child' = "none"
    /\ UNCHANGED <<shell, app, makedirs, request, environment, dir_exists, video_info, names, nlines, result>>

\* an audio leg that always transcodes
AudioCommandAlwaysFfmpeg == "ffmpeg"

\* line 168: transcode the fetched video, or fetch the audio directly
AudioCommand == IF download_video THEN "ffmpeg" ELSE "audio_direct"

\* lines 163-179 / 186-194: the audio invocation is started (or the leg skipped)
RunAudioSpawn ==
    /\ Gui("audio")
    /\ IF download_audio
       THEN /\ events' = events \o << Emit("status", <<"Extracting MP3 (audio)...">>),
                                      Emit("log", <<"\nExtracting MP3 audio...">>),
                                      Emit("progress", 70) >>
            /\ child' = AudioCommand
            /\ invoked' = Spawned(AudioCommand)
            /\ pc' = "audio_wait"
       ELSE /\ pc' = "finish"
            /\ UNCHANGED <<events, child, invoked>>
    /\ UNCHANGED <<shell, app, makedirs, request, environment, dir_exists, video_info, names, nlines, result>>

\* a run that forgets the returns of lines 183 and 198
AfterAudioNoReturn(rc) == "finish"

\* lines 181-183 / 196-198: where the run goes after the audio invocation
\* exited with rc
AfterAudio(rc) == IF rc # 0 THEN "returned" ELSE "finish"

\* lines 179-200: the audio invocation has exited
RunAudioReturn ==
    /\ Gui("audio_wait")
    /\ \E rc \in ExitCodes, err \in Diags :
          /\ rc = 0 => err = <<>>
          /\ invoked' = Exited(rc, err, NoOutput)
          /\ events' = Append(events,
                IF rc # 0
                THEN Emit("error",
                          <<IF child = "ffmpeg" THEN "Error extracting audio: "
                                                ELSE "Error downloading audio: ">> \o err)
                ELSE Emit("log", <<"MP3 extraction complete!">>))
          /\ pc' = AfterAudio(rc)
    /\ child' = "none"
    /\ UNCHANGED <<shell, app, makedirs, request, environment, dir_exists, video_info, names, nlines, result>>

\* lines 202-204
RunFinish ==
    /\ Gui("finish")
    /\ events' = events \o << Emit("progress", 100),
                              Emit("status", <<"Download complete!">>),
                              Emit("finished", output_path) >>
    /\ pc' = "returned"
    /\ UNCHANGED <<shell, app, makedirs, request, environment, dir_exists, child, invoked, video_info,
                   names, nlines, result>>

DownloadWorkerRun ==
    \/ RunCheckDeps
    \/ RunMakeDirs
    \/ GetVideoInfoSpawn
    \/ GetVideoInfoReturn
    \/ RunDeriveNames
    \/ RunVideoSpawn
    \/ RunVideoReadLine
    \/ VideoProcessExit
    \/ RunVideoLoopBreak
    \/ RunVideoFallbackSpawn
    \/ RunVideoFallbackReturn
    \/ RunAudioSpawn
    \/ RunAudioReturn
    \/ RunFinish

-----------------------------------------------------------------------------
(* download_video (command-line front-end).  Every subprocess.run blocks   *)
(* until the child has exited, so a step that follows an exit and starts   *)
(* the next invocation is one action.                                      *)

Cli(at) == frontend = "cli" /\ pc = at

Printed(msg) == Emit("print", msg)

\* lines 56-57 with check_dependencies, lines 17-34
CliCheckDeps ==
    /\ Cli("check_deps")
    /\ IF missing_deps # <<>>
       THEN /\ events' = events \o
                   << Printed(<<"Missing required dependencies:">> \o missing_deps),
                      Printed(<<"\nTo install the dependencies on macOS using Homebrew:">>),
                      Printed(<<"brew install yt-dlp ffmpeg">>) >>
            /\ result' = FALSE
            /\ pc' = "returned"
       ELSE /\ pc' = "makedirs"
            /\ UNCHANGED <<events, result>>
    /\ UNCHANGED <<shell, app, makedirs, request, environment, dir_exists, child, invoked, video_info,
                   names, nlines>>

\* lines 61-62, and the handler of lines 125-127 when os.makedirs raises
CliMakeDirs ==
    /\ Cli("makedirs")
    /\ \/ /\ dir_exists
          /\ pc' = "get_video_info"
          /\ UNCHANGED <<dir_exists, events, result, makedirs>>
       \/ /\ ~dir_exists
          /\ dir_exists' = TRUE
          /\ makedirs' = "ok"
          /\ pc' = "get_video_info"
          /\ UNCHANGED <<events, result>>
       \/ /\ ~dir_exists
          /\ events' = Append(events, Printed(<<"Error: ", "OSError">>))
          /\ makedirs' = "failed"
          /\ result' = FALSE
          /\ pc' = "returned"
          /\ UNCHANGED dir_exists
    /\ UNCHANGED <<shell, app, request, environment, child, invoked, video_info, names, nlines>>

\* lines 65-66 and get_video_info, lines 40-41
CliGetVideoInfoSpawn ==
    /\ Cli("get_video_info")
    /\ events' = Append(events, Printed(<<"Getting video information...">>))
    /\ child' = "metadata"
    /\ invoked' = Spawned("metadata")
    /\ pc' = "get_video_info_wait"
    /\ UNCHANGED <<shell, app, makedirs, request, environment, dir_exists, video_info, names, nlines, result>>

\* get_video_info, lines 41-51
CliGetVideoInfoReturn ==
    /\ Cli("get_video_info_wait")
    /\ \E rc \in ExitCodes, err \in Diags, out \in MetaOutputs :
          /\ rc = 0 => err = <<>>
          /\ rc # 0 => out = NoOutput
          /\ invoked' = Exited(rc, err, out)
          /\ video_info' = InfoValue(rc, out)
          /\ events' = IF rc # 0
                       THEN Append(events, Printed(<<"Error getting video info: ">> \o err))
                       ELSE IF ~out.parses
                       THEN Append(events,
                              Printed(<<"Error while getting video info: ", "JSONDecodeError">>))
                       ELSE events
    /\ child' = "none"
    /\ pc' = "have_video_info"
    /\ UNCHANGED <<shell, app, makedirs, request, environment, dir_exists, names, nlines, result>>

\* lines 68-80
CliDeriveNames ==
    /\ Cli("have_video_info")
    /\ IF ~Truthy(video_info)
       THEN /\ events' = Append(events, Printed(<<"Failed to get video information">>))
            /\ result' = FALSE
            /\ pc' = "returned"
            /\ UNCHANGED names
       ELSE LET title == Get(video_info.obj, "title", DefaultTitle)
                sane  == sanitize_filename(title)
            IN  /\ video_title' = title
                /\ sanitized_title' = sane
                /\ events' = Append(events, Printed(<<"\nDownloading: ">> \o title))
                /\ video_file' = PathJoin(output_path, sane, ".mp4")
                /\ audio_file' = PathJoin(output_path, sane, ".mp3")
                /\ pc' = "video"
                /\ UNCHANGED result
    /\ UNCHANGED <<shell, app, makedirs, request, environment, dir_exists, child, invoked, video_info, nlines>>

\* lines 83-90: the primary video fetch is started
CliVideoSpawn ==
    /\ Cli("video")
    /\ events' = Append(events, Printed(<<"\nDownloading MP4 (video)...">>))
    /\ child' = "video_primary"
    /\ invoked' = Spawned("video_primary")
    /\ pc' = "video_wait"
    /\ UNCHANGED <<shell, app, makedirs, request, environment, dir_exists, video_info, names, nlines, result>>

\* lines 90-96 and 101: the primary has exited; a failed one is followed by
\* the fallback
CliVideoReturn ==
    /\ Cli("video_wait")
    /\ \E rc \in ExitCodes, err \in Diags :
          /\ rc = 0 => err = <<>>
          /\ IF NeedsFallback(rc)
             THEN /\ events' = Append(events, Printed(<<"Error downloading video: ">> \o err))
                  /\ invoked' = Append(Exited(rc, err, NoOutput),
                                          Invocation("video_fallback"))
                  /\ child' = "video_fallback"
                  /\ pc' = "video_fallback_wait"
             ELSE /\ events' = Append(events, Printed(<<"MP4 download complete: ">> \o video_file))
                  /\ invoked' = Exited(rc, err, NoOutput)
                  /\ child' = "none"
                  /\ pc' = "audio"
    /\ UNCHANGED <<shell, app, makedirs, request, environment, dir_exists, video_info, names, nlines, result>>

\* lines 96-101: the fallback has exited
CliVideoFallbackReturn ==
    /\ Cli("video_fallback_wait")
    /\ \E rc \in ExitCodes, err \in Diags :
          /\ rc = 0 => err = <<>>
          /\ invoked' = Exited(rc, err, NoOutput)
          /\ IF rc # 0
             THEN /\ events' = Append(events,
                        Printed(<<"Error downloading video (second attempt): ">> \o err))
                  /\ result' = FALSE
             ELSE /\ events' = Append(events, Printed(<<"MP4 download complete: ">> \o video_file))
                  /\ UNCHANGED result
          /\ pc' = AfterFallback(rc)
    /\ child' = "none"
    /\ UNCHANGED <<shell, app, makedirs, request, environment, dir_exists, video_info, names, nlines>>

\* lines 104-114: the transcode is started
CliAudioSpawn ==
    /\ Cli("audio")
    /\ events' = Append(events, Printed(<<"\nExtracting MP3 (audio)...">>))
    /\ child' = "ffmpeg"
    /\ invoked' = Spawned("ffmpeg")
    /\ pc' = "audio_wait"
    /\ UNCHANGED <<shell, app, makedirs, request, environment, dir_exists, video_info, names, nlines, result>>

\* lines 114-123: the transcode has exited
CliAudioReturn ==
    /\ Cli("audio_wait")
    /\ \E rc \in ExitCodes, err \in Diags :
          /\ rc = 0 => err = <<>>
          /\ invoked' = Exited(rc, err, NoOutput)
          /\ IF rc # 0
             THEN /\ events' = Append(events, Printed(<<"Error extracting audio: ">> \o err))
                  /\ result' = FALSE
             ELSE /\ events' = events \o
                        << Printed(<<"MP3 extraction complete: ">> \o audio_file),
                           Printed(<<"\nFiles saved to: ", output_path>>) >>
                  /\ result' = TRUE
    /\ child' = "none"
    /\ pc' = "returned"
    /\ UNCHANGED <<shell, app, makedirs, request, environment, dir_exists, video_info, names, nlines>>

DownloadVideo ==
    \/ CliCheckDeps
    \/ CliMakeDirs
    \/ CliGetVideoInfoSpawn
    \/ CliGetVideoInfoReturn
    \/ CliDeriveNames
    \/ CliVideoSpawn
    \/ CliVideoReturn
    \/ CliVideoFallbackReturn
    \/ CliAudioSpawn
    \/ CliAudioReturn

Next == DownloadWorkerRun \/ DownloadVideo

Spec == Init /\ [][Next]_vars

-----------------------------------------------------------------------------
(* sanitize_filename applied to every title up to MaxTitleLen.             *)

TitleAlphabet == InvalidChars \cup {"a", " "}

InitSanitize ==
    /\ frontend = "cli"
    /\ output_path = "downloads"
    /\ download_video = TRUE
    /\ download_audio = TRUE
    /\ have_ytdlp = TRUE
    /\ have_ffmpeg = TRUE
    /\ dir_exists = TRUE
    /\ pc = "sanitize"
    /\ child = "none"
    /\ invoked = <<>>
    /\ events = <<>>
    /\ video_info = None
    /\ video_title \in SeqsUpTo(TitleAlphabet, MaxTitleLen)
    /\ sanitized_title = <<>>
    /\ video_file = <<>>
    /\ audio_file = <<>>
    /\ nlines = 0
    /\ result = "none"
    /\ makedirs = "no"
    /\ Detached

\* sanitized_title = sanitize_filename(video_title)
SanitizeCall ==
    /\ pc = "sanitize"
    /\ sanitized_title' = sanitize_filename(video_title)
    /\ pc' = "sanitized"
    /\ UNCHANGED <<shell, app, makedirs, request, environment, dir_exists, child, invoked, events,
                   video_info, video_title, video_file, audio_file, nlines, result>>

SpecSanitize == InitSanitize /\ [][SanitizeCall]_vars

-----------------------------------------------------------------------------
(* Reading the histories.                                                  *)

Calls(cmd) == {i \in 1..Len(invoked) : invoked[i].cmd = cmd}
Count(cmd) == Cardinality(Calls(cmd))

\* the indices of the events of signal sig
Signals(sig) == {i \in 1..Len(events) : events[i].sig = sig}

\* an error signal (gui) or a printed line (cli) that starts with head
Reported(sig, head) == \E i \in Signals(sig) : events[i].val[1] = head

Finished == Signals("finished") # {}

\* the run has ended in success
Done ==
    /\ pc = "returned"
    /\ IF frontend = "gui" THEN Finished ELSE result = TRUE

\* the run has ended in the video-fetch failure
VideoFailure ==
    /\ pc = "returned"
    /\ IF frontend = "gui"
       THEN events[Len(events)].sig = "error"
            /\ events[Len(events)].val[1] = "Error downloading video: "
       ELSE result = FALSE
            /\ events[Len(events)].val[1] = "Error downloading video (second attempt): "

\* the run has ended in the missing-dependencies failure
MissingDependencies ==
    /\ pc = "returned"
    /\ IF frontend = "gui"
       THEN Len(events) = 1 /\ events[1].sig = "error"
            /\ events[1].val[1] = "Missing required dependencies: "
       ELSE result = FALSE
            /\ events[1].val[1] = "Missing required dependencies:"

-----------------------------------------------------------------------------
(* C1: a request that asks for neither video nor audio is rejected by      *)
(* DownloadWorker.run itself: the run ends in a failure, never in          *)
(* success, and no engine is invoked at all.                               *)
C1_EmptyRequestRejected ==
    (frontend = "gui" /\ ~download_video /\ ~download_audio) =>
        /\ invoked = <<>>
        /\ ~Finished
        /\ pc = "returned" => Signals("error") # {}

(* C2: when the probe finds a tool missing, the run ends in the            *)
(* missing-dependencies failure: it never leaves the dependency check for  *)
(* a later step (directory creation included) and spawns no subprocess.    *)
C2_MissingDepsHalts ==
    (~have_ytdlp \/ ~have_ffmpeg) =>
        /\ invoked = <<>>
        /\ child = "none"
        /\ pc \in {"check_deps", "returned"}
        /\ pc = "returned" => MissingDependencies

C2_Witness ==
    /\ have_ytdlp /\ ~have_ffmpeg
    /\ frontend = "gui"
    /\ ~dir_exists
    /\ MissingDependencies

(* C3: the video engine is invoked at most twice, one primary and at most  *)
(* one fallback; the fallback directly follows a primary that exited       *)
(* non-zero; a failed primary is always followed by the fallback, and a    *)
(* video failure is declared only after the fallback has been made.        *)
C3_OneFallback ==
    /\ Count("video_primary") <= 1
    /\ Count("video_fallback") <= 1
    /\ \A i \in Calls("video_fallback") :
          /\ i > 1
          /\ invoked[i - 1].cmd = "video_primary"
          /\ invoked[i - 1].exited
          /\ invoked[i - 1].rc # 0
    /\ \A i \in Calls("video_primary") :
          (invoked[i].exited /\ invoked[i].rc # 0
             /\ pc \notin {"video_loop", "video_returncode"})
          => Count("video_fallback") = 1
    /\ VideoFailure =>
          \E i \in Calls("video_fallback") : invoked[i].exited /\ invoked[i].rc # 0

C3_Witness ==
    /\ frontend = "cli"
    /\ VideoFailure
    /\ Count("video_primary") = 1
    /\ Count("video_fallback") = 1

\* the primary and the fallback video fetch have both exited non-zero
BothVideoFetchesFailed ==
    /\ \E i \in Calls("video_primary") : invoked[i].exited /\ invoked[i].rc # 0
    /\ \E i \in Calls("video_fallback") : invoked[i].exited /\ invoked[i].rc # 0

(* C4: when the primary and the fallback video fetch have both exited      *)
(* non-zero, the run has ended in the video-fetch failure: no transcode    *)
(* and no direct audio fetch was invoked, and the run is not DONE.         *)
C4_VideoFailureSkipsAudio ==
    BothVideoFetchesFailed =>
        /\ VideoFailure
        /\ Count("ffmpeg") = 0
        /\ Count("audio_direct") = 0
        /\ ~Done
        /\ ~Finished

C4_Witness ==
    /\ frontend = "gui"
    /\ download_audio
    /\ BothVideoFetchesFailed
    /\ pc = "returned"

-----------------------------------------------------------------------------
\* the progress values emitted so far, in order
RECURSIVE ProgressOf(_)
ProgressOf(evs) ==
    IF evs = <<>> THEN <<>>
    ELSE IF Head(evs).sig = "progress"
         THEN <<Head(evs).val>> \o ProgressOf(Tail(evs))
         ELSE ProgressOf(Tail(evs))

\* the events emitted since the primary video fetch was announced (line 112)
FetchVideoEvents ==
    LET start == CHOOSE i \in Signals("log") : events[i].val = <<"\nDownloading video...">>
    IN  SubSeq(events, start, Len(events))

(* C5: while the primary video fetch of DownloadWorker.run is being read,  *)
(* every progress value emitted for it lies in the closed range 30..70,    *)
(* whatever percentage lines the engine prints.                            *)
C5_FetchVideoProgressInRange ==
    (frontend = "gui" /\ pc = "video_loop") =>
        \A i \in 1..Len(ProgressOf(FetchVideoEvents)) :
            ProgressOf(FetchVideoEvents)[i] \in 30..70

(* C6: the progress values emitted by one run of DownloadWorker.run never  *)
(* decrease: each emitted value is at least every value emitted before it. *)
C6_ProgressNonDecreasing ==
    frontend = "gui" =>
        \A i, j \in 1..Len(ProgressOf(events)) :
            i <= j => ProgressOf(events)[i] <= ProgressOf(events)[j]

\* the title with the invalid characters deleted, by position
Deleted(title) == SelectSeq(title, LAMBDA c : c \notin InvalidChars)

(* C7: sanitize_filename(title) contains none of the nine characters       *)
(* \ / * ? : " < > | and is the title with exactly those characters        *)
(* deleted, the others kept in order; sanitizing the result again changes  *)
(* nothing.                                                                *)
C7_SanitizeDeletesInvalid ==
    pc = "sanitized" =>
        /\ \A i \in 1..Len(sanitized_title) : sanitized_title[i] \notin InvalidChars
        /\ sanitized_title = Deleted(video_title)
        /\ Len(sanitized_title)
             = Len(video_title) - Cardinality({i \in 1..Len(video_title) :
                                                 video_title[i] \in InvalidChars})
        /\ sanitize_filename(sanitized_title) = sanitized_title

C7_Witness ==
    /\ pc = "sanitized"
    /\ video_title = <<"|", "a", "\\">>
    /\ sanitized_title = <<"a">>

\* get_video_info returned a value that passes the test of line 96
MetadataSucceeded == Truthy(video_info)

MetadataFailed ==
    /\ Calls("metadata") # {}
    /\ invoked[1].exited
    /\ invoked[1].rc # 0 \/ ~invoked[1].out.parses

\* the metadata failure was reported with the engine's diagnostic
MetadataErrorReported ==
    IF frontend = "gui"
    THEN /\ Cardinality(Signals("error")) = 1
         /\ events[Len(events)].sig = "error"
         /\ IF invoked[1].rc # 0
            THEN /\ events[Len(events)].val[1] = "Error getting video info: "
                 /\ invoked[1].err # <<>> =>
                       events[Len(events)].val
                         = <<"Error getting video info: ">> \o invoked[1].err
            ELSE events[Len(events)].val[1] = "Error while getting video info: "
    ELSE LET e == events[2]
         IN  /\ e.sig = "print"
             /\ IF invoked[1].rc # 0
                THEN e.val = <<"Error getting video info: ">> \o invoked[1].err
                ELSE e.val[1] = "Error while getting video info: "
             /\ pc = "returned" =>
                   result = FALSE /\ Reported("print", "Failed to get video information")

(* C9: when the metadata invocation exits non-zero or its output does not  *)
(* parse, the run halts there: the error is reported with the engine's     *)
(* diagnostic, no further engine invocation follows and the run is not     *)
(* DONE.                                                                   *)
C9_MetadataFailureHalts ==
    MetadataFailed =>
        /\ Len(invoked) = 1
        /\ pc \in {"have_video_info", "returned"}
        /\ MetadataErrorReported
        /\ ~Done
        /\ ~Finished

C9_Witness ==
    /\ frontend = "gui"
    /\ MetadataFailed
    /\ invoked[1].rc # 0 /\ invoked[1].err = <<"E">>
    /\ pc = "returned"

C9_WitnessUnparsable ==
    /\ frontend = "cli"
    /\ MetadataFailed
    /\ invoked[1].rc = 0
    /\ pc = "returned"

\* the metadata invocation exited 0 with an object that has no title member
TitleOmitted ==
    /\ Calls("metadata") # {}
    /\ invoked[1].exited
    /\ invoked[1].rc = 0
    /\ invoked[1].out.parses
    /\ ~\E m \in invoked[1].out.obj : m[1] = "title"

(* C10: when the metadata invocation exits 0 with parseable output that    *)
(* has no title (an object with no members included), the run goes on      *)
(* under the title "video": the output files are video.mp4 and video.mp3   *)
(* and the fetch steps asked for are invoked.                              *)
C10_TitleDefaultsToVideo ==
    (TitleOmitted /\ pc # "have_video_info") =>
        /\ video_title = DefaultTitle
        /\ video_file = PathJoin(output_path, DefaultTitle, ".mp4")
        /\ audio_file = PathJoin(output_path, DefaultTitle, ".mp3")
        /\ (pc = "returned" /\ (download_video \/ download_audio)) => Len(invoked) >= 2

-----------------------------------------------------------------------------
\* the tools that do not resolve on the path
Unresolved ==
    (IF have_ytdlp THEN {} ELSE {"yt-dlp"}) \cup (IF have_ffmpeg THEN {} ELSE {"ffmpeg"})

\* the tool names the missing-dependencies report lists
ReportedMissing == Tail(events[1].val)

(* C11: once the probe has run, the pipeline goes on exactly when both     *)
(* tools resolve; otherwise the run ends in the missing-dependencies       *)
(* failure, whose report lists exactly the unresolved tools, each once.    *)
C11_ProbeReportsUnresolved ==
    pc # "check_deps" =>
        IF Unresolved = {}
        THEN ~MissingDependencies
        ELSE /\ MissingDependencies
             /\ {ReportedMissing[i] : i \in 1..Len(ReportedMissing)} = Unresolved
             /\ Len(ReportedMissing) = Cardinality(Unresolved)

C11_Witness ==
    /\ ~have_ytdlp /\ ~have_ffmpeg
    /\ MissingDependencies
    /\ ReportedMissing = <<"yt-dlp", "ffmpeg">>

(* C12: in DownloadWorker.run, whenever an error event is emitted, the     *)
(* text it carries was emitted on the log stream before it.                *)
C12_ErrorLoggedFirst ==
    frontend = "gui" =>
        \A i \in Signals("error") :
            \E j \in Signals("log") : j < i /\ events[j].val = events[i].val

-----------------------------------------------------------------------------
(* The command-line entry point: __main__ of youtube_downloader_ytdlp.py.  *)

Argvs ==
    { <<"prog">>, <<"prog", "url">>, <<"prog", "url", "my_downloads">> }

InitMain ==
    /\ frontend = "cli"
    /\ argv \in Argvs
    /\ exit_code = <<>>
    /\ output_path = ""
    /\ download_video = TRUE
    /\ download_audio = TRUE
    /\ have_ytdlp \in BOOLEAN
    /\ have_ffmpeg \in BOOLEAN
    /\ dir_exists \in BOOLEAN
    /\ pc = "main"
    /\ Idle
    /\ FreshForm

\* lines 131-134: no locator argument
MainUsage ==
    /\ Cli("main")
    /\ Len(argv) < 2
    /\ events' = events \o << Printed(<<"Usage: ">>), Printed(<<"Example: ">>) >>
    /\ exit_code' = <<1>>
    /\ pc' = "exited"
    /\ UNCHANGED <<app, makedirs, request, environment, dir_exists, child, invoked,
                   video_info, names, nlines, result, argv>>

\* lines 136-139: download_video(url, output_folder) is called
MainCall ==
    /\ Cli("main")
    /\ Len(argv) >= 2
    /\ output_path' = IF Len(argv) > 2 THEN argv[3] ELSE "downloads"
    /\ pc' = "check_deps"
    /\ UNCHANGED <<app, shell, makedirs, frontend, download_video, download_audio,
                   environment, dir_exists, child, invoked, events, video_info,
                   names, nlines, result>>

\* an entry point that forgets sys.exit(1)
ExitCodeAlwaysZero(success) == 0

\* lines 140-141: sys.exit(1) unless download_video returned True; falling off
\* the end of the script is exit code 0
ExitCode(success) == IF ~success THEN 1 ELSE 0

\* lines 139-141: download_video has returned
MainExit ==
    /\ Cli("returned")
    /\ exit_code' = <<ExitCode(result)>>
    /\ pc' = "exited"
    /\ UNCHANGED <<app, makedirs, request, environment, dir_exists, child, invoked,
                   events, video_info, names, nlines, result, argv>>

NextMain == MainUsage \/ MainCall \/ DownloadVideo \/ MainExit

SpecMain == InitMain /\ [][NextMain]_vars

\* some invocation of cmd has exited with code 0
ExitedZero(cmd) == \E i \in Calls(cmd) : invoked[i].exited /\ invoked[i].rc = 0

\* every step of the command-line pipeline succeeded
PipelineSucceeded ==
    /\ Len(argv) >= 2
    /\ have_ytdlp /\ have_ffmpeg
    /\ dir_exists /\ makedirs # "failed"
    /\ ExitedZero("metadata")
    /\ ExitedZero("video_primary") \/ ExitedZero("video_fallback")
    /\ ExitedZero("ffmpeg")

(* C14: the command line exits with code 0 exactly when every step of the  *)
(* pipeline succeeded, and with code 1 otherwise: a missing locator        *)
(* argument, a missing tool, a directory that cannot be created, and a     *)
(* failed metadata, video or audio step all exit 1.                        *)
C14_ExitCode ==
    /\ pc = "exited" => exit_code = IF PipelineSucceeded THEN <<0>> ELSE <<1>>
    /\ pc # "exited" => exit_code = <<>>

C14_Witness ==
    /\ pc = "exited"
    /\ exit_code = <<0>>
    /\ ExitedZero("video_fallback")

C14_WitnessFailure ==
    /\ pc = "exited"
    /\ exit_code = <<1>>
    /\ makedirs = "failed"

-----------------------------------------------------------------------------
\* the terminal events emitted so far
Terminals == Signals("finished") \cup Signals("error")

\* the run has ended without success
Failed == pc = "returned" /\ ~Finished

(* C15: when DownloadWorker.run reaches DONE, progress 100 and the status  *)
(* "Download complete!" were emitted just before the finished event, which *)
(* carries the request's output directory; and progress 100 is emitted in  *)
(* no run that ends in failure.                                            *)
C15_CompletionEvents ==
    frontend = "gui" =>
        /\ \A i \in Signals("finished") :
              /\ i > 2
              /\ events[i - 2] = Emit("progress", 100)
              /\ events[i - 1] = Emit("status", <<"Download complete!">>)
              /\ events[i].val = output_path
        /\ Failed => ~\E i \in Signals("progress") : events[i].val = 100

\* the part of C15 about a run that reaches DONE
C15_DoneEvents ==
    frontend = "gui" =>
        \A i \in Signals("finished") :
            /\ i > 2
            /\ events[i - 2] = Emit("progress", 100)
            /\ events[i - 1] = Emit("status", <<"Download complete!">>)
            /\ events[i].val = output_path

(* C16: the invocations of a run are strictly sequential: every invocation *)
(* but the last has exited, the live child is the last invocation, and the *)
(* reading loop of the primary video fetch is left only after that process *)
(* has exited.                                                             *)
C16_Sequential ==
    /\ \A i \in 1..Len(invoked) : i < Len(invoked) => invoked[i].exited
    /\ Cardinality({i \in 1..Len(invoked) : ~invoked[i].exited}) <= 1
    /\ IF child = "none"
       THEN \A i \in 1..Len(invoked) : invoked[i].exited
       ELSE /\ invoked # <<>>
            /\ invoked[Len(invoked)].cmd = child
            /\ ~invoked[Len(invoked)].exited
    /\ \A i \in Calls("video_primary") :
          (frontend = "gui" /\ pc # "video_loop") => invoked[i].exited

C16_Witness ==
    /\ frontend = "gui"
    /\ child = "ffmpeg"
    /\ Count("video_fallback") = 1
    /\ nlines = MaxLines

\* the failure of os.makedirs was reported to the caller
FilesystemErrorReported ==
    /\ events # <<>>
    /\ events[Len(events)].val = <<"Error: ", "OSError">>
    /\ IF frontend = "gui"
       THEN events[Len(events)].sig = "error"
       ELSE result = FALSE

(* C18: os.makedirs is called only after the dependency check passed and   *)
(* before the metadata fetch, so that every engine invocation finds the    *)
(* directory present; when os.makedirs fails the run has ended, the        *)
(* failure is reported to the caller and no engine was invoked.            *)
C18_DirectoryBeforeMetadata ==
    /\ makedirs # "no" => have_ytdlp /\ have_ffmpeg
    /\ makedirs = "ok" => dir_exists
    /\ invoked # <<>> => dir_exists /\ makedirs # "failed"
    /\ makedirs = "failed" =>
          /\ pc = "returned"
          /\ invoked = <<>>
          /\ child = "none"
          /\ FilesystemErrorReported
          /\ ~Done

C18_Witness ==
    /\ frontend = "cli"
    /\ makedirs = "failed"
    /\ FilesystemErrorReported

C18_WitnessCreated ==
    /\ frontend = "gui"
    /\ makedirs = "ok"
    /\ Count("metadata") = 1

(* C19: a run of DownloadWorker.run emits at most one terminal event       *)
(* (finished or error), and the terminal event is the last event of the    *)
(* run: no progress, status or log event follows it.                       *)
C19_OneTerminalEvent ==
    frontend = "gui" =>
        /\ Cardinality(Terminals) <= 1
        /\ \A i \in Terminals : i = Len(events)

C19_Witness ==
    /\ frontend = "gui"
    /\ pc = "returned"
    /\ Signals("error") # {}
    /\ Count("ffmpeg") = 1

\* every leg the request asks for has ended with exit code 0
RequestedLegsSucceeded ==
    /\ ExitedZero("metadata")
    /\ download_video => ExitedZero("video_primary") \/ ExitedZero("video_fallback")
    /\ download_audio => ExitedZero("ffmpeg") \/ ExitedZero("audio_direct")

(* C20: a run reports success only if every leg it was asked for ended     *)
(* with exit code 0, and every successful run has produced at least one    *)
(* requested output.                                                       *)
C20_SuccessMeansLegsSucceeded ==
    Done =>
        /\ RequestedLegsSucceeded
        /\ download_video \/ download_audio

\* the part of C20 about the legs that were asked for
C20_LegsSucceeded == Done => RequestedLegsSucceeded

-----------------------------------------------------------------------------
(* The interactive surface: YouTubeDownloaderApp.  start_download runs on  *)
(* the main thread; the signals a worker emits from its own thread are     *)
(* queued and handled by the main thread one at a time, in order.          *)

InitApp ==
    /\ frontend = "gui"
    /\ output_path = ""
    /\ download_video = TRUE
    /\ download_audio = TRUE
    /\ have_ytdlp \in BOOLEAN
    /\ have_ffmpeg \in BOOLEAN
    /\ dir_exists \in BOOLEAN
    /\ pc = "idle"
    /\ Idle
    /\ Detached

\* what the form's fields can hold when the button is clicked
UrlTexts == {"", "url"}
PathTexts == {"", "downloads"}

\* what is left of the run of self.worker when it is replaced (line 345)
Leftover ==
    [pc |-> pc, video_info |-> video_info, child |-> child,
     terminal |-> (\E i \in 1..Len(events) : events[i].sig \in {"finished", "error"})]

\* start_download, lines 320-355
StartDownload ==
    /\ frontend = "gui"
    /\ argv = <<>>
    /\ download_btn
    /\ \E url \in UrlTexts, path \in PathTexts, mp4 \in BOOLEAN, mp3 \in BOOLEAN :
          IF url = ""
          THEN /\ message_box' = "Please enter a YouTube URL"
               /\ UNCHANGED <<request, dir_exists, pc, child, invoked, events,
                              video_info, names, nlines, result, makedirs,
                              download_btn, log_label, delivered, started, previous>>
          ELSE IF path = ""
          THEN /\ message_box' = "Please select an output folder"
               /\ UNCHANGED <<request, dir_exists, pc, child, invoked, events,
                              video_info, names, nlines, result, makedirs,
                              download_btn, log_label, delivered, started, previous>>
          ELSE IF ~mp4 /\ ~mp3
          THEN /\ message_box' = "Please select at least one format to download"
               /\ UNCHANGED <<request, dir_exists, pc, child, invoked, events,
                              video_info, names, nlines, result, makedirs,
                              download_btn, log_label, delivered, started, previous>>
          ELSE /\ started < MaxDownloads
               /\ download_btn' = FALSE
               /\ log_label' = <<>>
               /\ previous' = IF started > 0 THEN Append(previous, Leftover) ELSE previous
               /\ started' = started + 1
               /\ delivered' = 0
               /\ output_path' = path
               /\ download_video' = mp4
               /\ download_audio' = mp3
               /\ pc' = "check_deps"
               /\ child' = "none"
               /\ invoked' = <<>>
               /\ events' = <<>>
               /\ video_info' = None
               /\ video_title' = <<>>
               /\ sanitized_title' = <<>>
               /\ video_file' = <<>>
               /\ audio_file' = <<>>
               /\ nlines' = 0
               /\ result' = "none"
               /\ makedirs' = "no"
               /\ UNCHANGED <<frontend, dir_exists, message_box>>
    /\ UNCHANGED <<shell, environment, progress_bar, status_label>>

\* download_finished and download_error (lines 369, 375) enable the button;
\* update_progress, update_status and append_log do not
ReenablesButton(sig) == sig \in {"finished", "error"}

\* the main thread handles the next queued signal of self.worker:
\* update_progress, update_status, append_log, download_finished,
\* download_error (lines 357-378)
Deliver ==
    /\ frontend = "gui"
    /\ started > 0
    /\ delivered < Len(events)
    /\ LET e == events[delivered + 1]
       IN  /\ progress_bar' = IF e.sig = "progress" THEN e.val ELSE progress_bar
           /\ status_label' = IF e.sig = "status" THEN e.val
                              ELSE IF e.sig = "error" THEN <<"Error: Download failed">>
                              ELSE status_label
           /\ log_label' = IF e.sig = "log" THEN Append(log_label, e.val) ELSE log_label
           /\ message_box' = IF e.sig = "finished" THEN "Success"
                             ELSE IF e.sig = "error" THEN "Download failed"
                             ELSE message_box
           /\ download_btn' = IF ReenablesButton(e.sig) THEN TRUE ELSE download_btn
    /\ delivered' = delivered + 1
    /\ UNCHANGED <<shell, request, environment, dir_exists, pc, child, invoked,
                   events, video_info, names, nlines, result, makedirs, started,
                   previous>>

\* an earlier worker whose get_video_info returned None takes the return of
\* lines 96-97
PreviousReturn ==
    /\ \E i \in 1..Len(previous) :
          /\ previous[i].pc = "have_video_info"
          /\ ~Truthy(previous[i].video_info)
          /\ previous' = [previous EXCEPT ![i].pc = "returned"]
    /\ UNCHANGED <<shell, request, environment, dir_exists, pc, child, invoked,
                   events, video_info, names, nlines, result, makedirs,
                   download_btn, message_box, progress_bar, status_label,
                   log_label, delivered, started>>

NextApp == StartDownload \/ Deliver \/ PreviousReturn \/ DownloadWorkerRun

SpecApp == InitApp /\ [][NextApp]_vars

\* every signal of self.worker has been handled by the main thread
Drained == delivered = Len(events)

\* the run of self.worker was started from the form and has returned
FormRunOver == started > 0 /\ pc = "returned"

(* C13: a run started from the form that does not end in success emits an  *)
(* error event, and once a returned run's events are all handled the start *)
(* control is enabled again.                                               *)
C13_FailureReenablesStart ==
    /\ FormRunOver /\ ~Finished => Signals("error") # {}
    /\ FormRunOver /\ Drained => download_btn

\* the part of C13 that holds: a run that emitted a terminal event leaves
\* the start control enabled once that event is handled, and the only run
\* that returns without one is the run whose metadata is a falsy object
C13_TerminalEventReenables ==
    /\ FormRunOver /\ Drained /\ Terminals # {} => download_btn
    /\ FormRunOver /\ Terminals = {} =>
          /\ ~video_info.is_none
          /\ video_info.obj = {}

\* the workers whose run has not returned yet
Executing ==
    Cardinality({i \in 1..Len(previous) : previous[i].pc # "returned"})
    + (IF pc \in {"idle", "returned"} THEN 0 ELSE 1)

(* C17: at most one DownloadWorker is executing at any time: a worker is   *)
(* started only after the previous worker's run has returned.              *)
C17_OneWorkerExecuting == Executing <= 1

\* what does hold of a replaced worker: its terminal event was emitted, no
\* engine process of its is alive, and it has nothing left but the returns
\* of lines 68 and 96-97
C17_ReplacedWorkerOnlyReturns ==
    \A i \in 1..Len(previous) :
        /\ previous[i].terminal
        /\ previous[i].child = "none"
        /\ \/ previous[i].pc = "returned"
           \/ /\ previous[i].pc = "have_video_info"
              /\ previous[i].video_info.is_none

-----------------------------------------------------------------------------
(* Termination.  The thread that runs the pipeline keeps taking steps, and *)
(* an engine process that was started exits: subprocess.run returns (cli   *)
(* lines 44, 90, 95, 116; gui lines 63, 154, 177, 194) and the process     *)
(* behind the Popen of gui line 123 ends and closes its output.            *)

EngineExits ==
    /\ WF_vars(VideoProcessExit)
    /\ WF_vars(GetVideoInfoReturn \/ RunVideoFallbackReturn \/ RunAudioReturn)
    /\ WF_vars(CliGetVideoInfoReturn \/ CliVideoReturn \/ CliVideoFallbackReturn
               \/ CliAudioReturn)

ThreadRuns == WF_vars(DownloadWorkerRun) /\ WF_vars(DownloadVideo)

SpecLive == Spec /\ ThreadRuns /\ EngineExits

\* the kinds of engine invocation a run makes
Commands == {"metadata", "video_primary", "video_fallback", "ffmpeg", "audio_direct"}

\* at most four invocations: metadata, primary video, fallback video, audio,
\* each at most once
InvocationsBounded ==
    /\ Len(invoked) <= 4
    /\ \A i \in 1..Len(invoked) : invoked[i].cmd \in Commands
    /\ \A cmd \in Commands : Count(cmd) <= 1
    /\ Count("ffmpeg") + Count("audio_direct") <= 1

\* the primary video fetch has exited and the run is still in its reading loop
ExitedInLoop ==
    /\ pc = "video_loop"
    /\ child = "none"

(* C21: every run of download_video and of DownloadWorker.run terminates,  *)
(* having made at most four engine invocations (metadata, primary video,   *)
(* fallback video, audio); in particular the reading loop of the primary   *)
(* video fetch, which a returned run has left, ends once that process has  *)
(* exited.                                                                 *)
C21_Terminates ==
    /\ []InvocationsBounded
    /\ <>(pc = "returned")

\* the second sentence of C21 on its own: from the exit of the primary video
\* fetch the run leaves the reading loop
C21_LoopEndsAfterExit == ExitedInLoop ~> (pc # "video_loop")

\* a run of the worker has returned after four invocations, having read
\* output of the primary video fetch in the loop
C21_Witness ==
    /\ frontend = "gui"
    /\ pc = "returned"
    /\ Len(invoked) = 4
    /\ nlines > 0

\* a run of download_video has returned after four invocations
C21_WitnessCli ==
    /\ frontend = "cli"
    /\ pc = "returned"
    /\ Len(invoked) = 4

=============================================================================
